---- MODULE Spec2Model ----
(***************************************************************************)
(* State-machine model of the yield-curve engine of                        *)
(* smritisars/Yield-Curve-Analyzer: the two curve classes YieldCurve       *)
(* (src/YieldCurve.h, the 6-tenor "legacy" class) and YieldCurveLive       *)
(* (src/YieldCurveLive.h, the 11-tenor "live" class).                      *)
(*                                                                         *)
(* Numbers.  A C++ double is modelled by the real number it stands for:    *)
(* a finite value is an exact rational <<n, d>> (d > 0, lowest terms), so  *)
(* the rounding of IEEE-754 arithmetic is abstracted away; the non-finite  *)
(* outcomes of std::pow and of a division by zero (NaN, +-infinity) are    *)
(* kept as values of their own.  Rational arithmetic is written so that    *)
(* no intermediate result leaves the 32-bit integers of the checker.       *)
(*                                                                         *)
(* Text.  CSV lines, tokens, dates and filters are strings; splitting a    *)
(* line at commas, std::string::find and std::stod are computed character  *)
(* by character.                                                           *)
(***************************************************************************)
EXTENDS Integers, Sequences, FiniteSets, TLC

(***************************************************************************)
(* Exact rationals                                                         *)
(***************************************************************************)
Abs(i) == IF i < 0 THEN -i ELSE i

Sgn(i) == IF i < 0 THEN -1 ELSE IF i = 0 THEN 0 ELSE 1

RECURSIVE Gcd(_, _)
Gcd(a, b) == IF b = 0 THEN a ELSE Gcd(b, a % b)

\* the rational n/d (d > 0) in lowest terms
Norm(n, d) == LET g == Gcd(Abs(n), d) IN <<n \div g, d \div g>>

Rat(n, d) == Norm(n, d)

Zero == <<0, 1>>

One == <<1, 1>>

Hundred == <<100, 1>>

RatNeg(a) == <<-a[1], a[2]>>

RatAbs(a) == <<Abs(a[1]), a[2]>>

RatAdd(a, b) ==
    LET g == Gcd(a[2], b[2])
    IN  Norm(a[1] * (b[2] \div g) + b[1] * (a[2] \div g), (a[2] \div g) * b[2])

RatSub(a, b) == RatAdd(a, RatNeg(b))

RatMul(a, b) ==
    LET g1 == Gcd(Abs(a[1]), b[2])
        g2 == Gcd(Abs(b[1]), a[2])
    IN  Norm((a[1] \div g1) * (b[1] \div g2), (a[2] \div g2) * (b[2] \div g1))

\* 1/b for b # 0
RatInv(b) == <<Sgn(b[1]) * b[2], Abs(b[1])>>

\* a/b for b # 0
RatDiv(a, b) == RatMul(a, RatInv(b))

RatFloor(a) == a[1] \div a[2]

RatIsInt(a) == a[2] = 1

\* p/q < r/s for 0 <= p < q and 0 <= r < s, by continued fractions (no products)
RECURSIVE FracLess(_, _, _, _)
FracLess(p, q, r, s) ==
    IF r = 0 THEN FALSE
    ELSE IF p = 0 THEN TRUE
    ELSE LET qa == q \div p
             qb == s \div r
         IN  IF qa # qb THEN qa > qb
             ELSE FracLess(s % r, r, q % p, p)

RatLess(a, b) ==
    LET fa == RatFloor(a)
        fb == RatFloor(b)
    IN  IF fa # fb THEN fa < fb
        ELSE FracLess(a[1] % a[2], a[2], b[1] % b[2], b[2])

RatLeq(a, b) == ~RatLess(b, a)

RatGt(a, b) == RatLess(b, a)

RatGeq(a, b) == ~RatLess(a, b)

(***************************************************************************)
(* Text: std::string, the comma split of a line, find, std::stod           *)
(***************************************************************************)
Char(s, i) == SubSeq(s, i, i)

Digits == {"0", "1", "2", "3", "4", "5", "6", "7", "8", "9"}

DigitVal(c) ==
    CASE c = "0" -> 0 [] c = "1" -> 1 [] c = "2" -> 2 [] c = "3" -> 3
      [] c = "4" -> 4 [] c = "5" -> 5 [] c = "6" -> 6 [] c = "7" -> 7
      [] c = "8" -> 8 [] c = "9" -> 9

\* std::isspace in the "C" locale (the vertical tab has no TLA+ escape)
IsSpace(c) == c \in {" ", "\t", "\n", "\r", "\f"}

\* while (std::getline(iss, token, ',')) tokens.push_back(token);
\* a piece is pushed for every comma, and a last piece only if it is not empty
RECURSIVE SplitFrom(_, _, _, _)
SplitFrom(line, i, cur, acc) ==
    IF i > Len(line)
    THEN IF cur = "" THEN acc ELSE Append(acc, cur)
    ELSE IF Char(line, i) = ","
         THEN SplitFrom(line, i + 1, "", Append(acc, cur))
         ELSE SplitFrom(line, i + 1, cur \o Char(line, i), acc)

Tokenize(line) == SplitFrom(line, 1, "", <<>>)

\* date.find(date_filter) != std::string::npos
Contains(date, date_filter) ==
    \E i \in 0..(Len(date) - Len(date_filter)) :
        SubSeq(date, i + 1, i + Len(date_filter)) = date_filter

RECURSIVE SkipSpace(_, _)
SkipSpace(s, i) ==
    IF i <= Len(s) /\ IsSpace(Char(s, i)) THEN SkipSpace(s, i + 1) ELSE i

\* the run of decimal digits of s from position i: its value, its length and
\* the position after it
RECURSIVE ScanDigits(_, _, _, _)
ScanDigits(s, i, val, cnt) ==
    IF i <= Len(s) /\ Char(s, i) \in Digits
    THEN ScanDigits(s, i + 1, val * 10 + DigitVal(Char(s, i)), cnt + 1)
    ELSE [val |-> val, cnt |-> cnt, next |-> i]

RECURSIVE Pow10(_)
Pow10(k) == IF k = 0 THEN 1 ELSE 10 * Pow10(k - 1)

\* the number of decimal digits of n > 0
RECURSIVE NumDigits(_)
NumDigits(n) == IF n < 10 THEN 1 ELSE 1 + NumDigits(n \div 10)

\* largest and smallest decimal exponent of a finite non-zero double
\* (DBL_MAX = 1.797...e308, the least subnormal is 4.9...e-324)
DblMaxExp10 == 308

DblMinExp10 == -324

\* std::stod(token): strtod's decimal form.  Leading white space is skipped,
\* then an optional sign, digits with an optional point, an optional exponent;
\* whatever follows the number is ignored.  No digit at all: the exception
\* std::invalid_argument; a value beyond the doubles: std::out_of_range.
StodValue(sign, mant, fcnt, exp) ==
    IF exp >= 0 THEN Rat(sign * mant * Pow10(exp), Pow10(fcnt))
    ELSE Rat(sign * mant, Pow10(fcnt - exp))

\* mant is the digits read as one integer, fcnt of them after the point;
\* NumDigits(mant) - 1 - fcnt + exp is the decimal exponent of the value
StodResult(sign, ndigits, mant, fcnt, exp) ==
    IF ndigits = 0 THEN [st |-> "invalid_argument"]
    ELSE IF mant = 0 THEN [st |-> "ok", v |-> Zero]
    ELSE IF \/ NumDigits(mant) - 1 - fcnt + exp > DblMaxExp10
            \/ NumDigits(mant) - 1 - fcnt + exp < DblMinExp10
    THEN [st |-> "out_of_range"]
    ELSE [st |-> "ok", v |-> StodValue(sign, mant, fcnt, exp)]

\* the exponent after an "e" at position j - 1: an optional sign and digits
\* (with no digit the "e" is not part of the number, and the exponent is 0)
ExpSigned(s, j) ==
    IF j <= Len(s) /\ Char(s, j) = "-" THEN -(ScanDigits(s, j + 1, 0, 0).val)
    ELSE IF j <= Len(s) /\ Char(s, j) = "+" THEN ScanDigits(s, j + 1, 0, 0).val
    ELSE ScanDigits(s, j, 0, 0).val

ExpPart(s, i) ==
    IF i <= Len(s) /\ Char(s, i) \in {"e", "E"} THEN ExpSigned(s, i + 1) ELSE 0

FracPart(s, i) ==
    IF i <= Len(s) /\ Char(s, i) = "." THEN ScanDigits(s, i + 1, 0, 0)
    ELSE [val |-> 0, cnt |-> 0, next |-> i]

StodExp(s, sign, ip, fp) ==
    StodResult(sign, ip.cnt + fp.cnt, ip.val * Pow10(fp.cnt) + fp.val, fp.cnt,
               ExpPart(s, fp.next))

StodFrac(s, sign, ip) == StodExp(s, sign, ip, FracPart(s, ip.next))

StodFrom(s, sign, i) == StodFrac(s, sign, ScanDigits(s, i, 0, 0))

StodSigned(s, i) ==
    StodFrom(s, IF i <= Len(s) /\ Char(s, i) = "-" THEN -1 ELSE 1,
             IF i <= Len(s) /\ Char(s, i) \in {"+", "-"} THEN i + 1 ELSE i)

stod(s) == StodSigned(s, SkipSpace(s, 1))

(***************************************************************************)
(* The curve object and the call in progress                               *)
(***************************************************************************)
VARIABLES
    variant,       \* which class the object is: "legacy" (YieldCurve) or "live" (YieldCurveLive)
    yield_points,  \* std::vector<YieldPoint>: records [maturity, yield, maturity_label]
    curve_date,    \* std::string
    pc,            \* "idle": no call in progress; "loading": inside loadFromCSV's
                   \* line loop; "aborted": an exception left loadFromCSV uncaught
    frame,         \* the locals of the function in progress: loadFromCSV's while
                   \* pc = "loading", those of main and its standard input in the
                   \* menu loop
    ret            \* the last call that returned: its name, arguments and value

vars == <<variant, yield_points, curve_date, pc, frame, ret>>

YieldPoint(m, y, label) == [maturity |-> m, yield |-> y, maturity_label |-> label]

\* YieldCurveLive::initializeMaturityMap (1.0/12.0 is the rational 1/12)
MaturityMapLive(label) ==
    CASE label = "1MO" -> Rat(1, 12)
      [] label = "3MO" -> Rat(1, 4)
      [] label = "6MO" -> Rat(1, 2)
      [] label = "1Y"  -> Rat(1, 1)
      [] label = "2Y"  -> Rat(2, 1)
      [] label = "3Y"  -> Rat(3, 1)
      [] label = "5Y"  -> Rat(5, 1)
      [] label = "7Y"  -> Rat(7, 1)
      [] label = "10Y" -> Rat(10, 1)
      [] label = "20Y" -> Rat(20, 1)
      [] label = "30Y" -> Rat(30, 1)

\* the vector maturity_order of YieldCurveLive::loadFromCSV
MaturityOrderLive ==
    <<"1MO", "3MO", "6MO", "1Y", "2Y", "3Y", "5Y", "7Y", "10Y", "20Y", "30Y">>

\* the std::map maturity_map of YieldCurve::loadFromCSV as its range-for visits
\* it: a std::map iterates in the order of its keys, and the keys are strings,
\* so "10Y" < "2Y" < "30Y" < "3MO" < "5Y" < "6MO"
MaturityMapLegacy ==
    << <<"10Y", Rat(10, 1)>>, <<"2Y", Rat(2, 1)>>, <<"30Y", Rat(30, 1)>>,
       <<"3MO", Rat(1, 4)>>, <<"5Y", Rat(5, 1)>>, <<"6MO", Rat(1, 2)>> >>

\* tokens.size() >= 12 (live), tokens.size() >= 7 (legacy)
MinTokensLive == 12

MinTokensLegacy == 7

\* the for loop of YieldCurveLive::loadFromCSV over maturity_order, from index i
\* (0-based): a token stod rejects with invalid_argument is skipped, any other
\* exception leaves the loop and the function
RECURSIVE FillLive(_, _, _)
FillLive(tokens, i, pts) ==
    IF ~(i < Len(MaturityOrderLive) /\ i + 1 < Len(tokens))
    THEN [points |-> pts, thrown |-> "none"]
    ELSE LET mat_label == MaturityOrderLive[i + 1]
             r         == stod(tokens[i + 2])
         IN  CASE r.st = "ok" ->
                    FillLive(tokens, i + 1,
                             Append(pts, YieldPoint(MaturityMapLive(mat_label), r.v, mat_label)))
               [] r.st = "invalid_argument" -> FillLive(tokens, i + 1, pts)
               [] OTHER -> [points |-> pts, thrown |-> r.st]

\* the for loop of YieldCurve::loadFromCSV over maturity_map, from its k-th
\* entry (1-based) with column col: no try block, every exception of stod
\* leaves the loop and the function
RECURSIVE FillLegacy(_, _, _, _)
FillLegacy(tokens, k, col, pts) ==
    IF k > Len(MaturityMapLegacy)
    THEN [points |-> pts, thrown |-> "none"]
    ELSE IF col < Len(tokens)
         THEN LET r == stod(tokens[col + 1])
              IN  IF r.st = "ok"
                  THEN FillLegacy(tokens, k + 1, col + 1,
                                  Append(pts, YieldPoint(MaturityMapLegacy[k][2], r.v,
                                                         MaturityMapLegacy[k][1])))
                  ELSE [points |-> pts, thrown |-> r.st]
         ELSE FillLegacy(tokens, k + 1, col, pts)

\* std::sort(yield_points.begin(), yield_points.end(), a.maturity < b.maturity)
\* mutation: no comparison, the point goes last
InsertLast(sorted, p) == Append(sorted, p)

\* (s and q name the values of the arguments, evaluated once)
RECURSIVE Insert(_, _)
Insert(sorted, p) ==
    CHOOSE r \in
        { IF s = <<>> THEN <<q>>
          ELSE IF RatLess(q.maturity, s[Len(s)].maturity)
               THEN Append(Insert(SubSeq(s, 1, Len(s) - 1), q), s[Len(s)])
               ELSE Append(s, q) : s \in {sorted}, q \in {p} } : TRUE

RECURSIVE SortByMaturity(_)
SortByMaturity(pts) ==
    CHOOSE r \in
        { IF s = <<>> THEN <<>>
          ELSE Insert(SortByMaturity(SubSeq(s, 1, Len(s) - 1)), s[Len(s)]) : s \in {pts} } : TRUE

(***************************************************************************)
(* Inputs: the lines a CSV file may hold below its header, the date        *)
(* filters and the arguments of the queries                                *)
(***************************************************************************)
\* the most data lines a file holds
MaxLines == 3

Lines ==
    { "2024-01-02,5.5,5.0,4.9,4.7,4.5,4.3,3.0,4.0,4.2,4.6,4.8",
      "2024-01-03,5.5,5.4,5.2,5.0,4.6,4.3,4.0,4.0,4.0,4.3,4.1",
      "2024-02-01,2.9,3.0,3.2,3.4,3.6,3.8,4.0,4.2,4.4,4.7,4.8",
      "2024-02-02,4.0,4.0,4.0,4.1,4.1,4.1,4.1,4.2,4.3,4.4,4.5",
      "2024-03-01,4.0,4.0,4.0,4.0,4.0,4.0,4.0,4.0,4.1,4.1,4.1",
      "2024-03-04,,5.00,,,4.50,,,,4.20,,4.60",
      "2024-04-01,N/A,,,,,,,,4.0,,4.1",
      "2024-04-02,-150,-150,-100,-100,-150,-150,-50,-50,-50,-50,-50",
      "2024-05-01,4.0,1e999,4.0,4.0,4.0,4.0,4.0,4.0,4.0,4.0,4.0",
      "2024-05-02,N/A,N/A,N/A,N/A,N/A,N/A,N/A,N/A,N/A,N/A,N/A",
      "2024-06-03,5.3,5.2,4.7,4.4,4.3,4.5",
      "2024-06-04,4.0,4.1",
      "2024-07-01,4.0,4.0,4.0,4.0,4.0,4.0,4.0,4.0,5.0,5.0,5.0",
      "2024-07-03,4.0,4.0,4.0,4.0,4.1,4.1,4.1,4.0,4.0,4.0,4.0",
      "2024-07-05,4.0,4.0,4.0,4.0,4.2,4.1,4.1,4.0,4.0,4.0,4.0" }

Filters == {"", "2024-02", "-02", "2025"}

\* the tokens of every line, split once
TokensOf == [l \in Lines |-> Tokenize(l)]

(***************************************************************************)
(* loadFromCSV.  The header line is read and dropped before the loop; each *)
(* further std::getline either delivers the next line of the file or fails *)
(* at its end.  Nothing else runs while the call is in progress.           *)
(***************************************************************************)
NoFrame == <<>>

NoRet == [op |-> "none"]

MinTokens == IF variant = "live" THEN MinTokensLive ELSE MinTokensLegacy

\* the two nested ifs of the loop body: enough tokens, and no filter or a
\* date token that contains it
Selected(tokens, date_filter) ==
    /\ Len(tokens) >= MinTokens
    /\ (date_filter = "" \/ Contains(tokens[1], date_filter))

Fill(tokens) ==
    IF variant = "live" THEN FillLive(tokens, 0, <<>>)
    ELSE FillLegacy(tokens, 1, 1, <<>>)

\* what a call of loadFromCSV leaves to observe: its argument, whether the file
\* opened (otherwise "Error: Could not open file" is printed) and its value
LoadRet(date_filter, opened, val) ==
    [op |-> "loadFromCSV", args |-> <<date_filter>>, opened |-> opened, val |-> val]

\* if (!file.is_open()) return false;
LoadOpenFail(date_filter) ==
    /\ pc = "idle"
    /\ ret' = LoadRet(date_filter, FALSE, FALSE)
    /\ UNCHANGED <<variant, yield_points, curve_date, pc, frame>>

\* the file opens, the header is skipped, found_date = false
LoadBegin(date_filter) ==
    /\ pc = "idle"
    /\ pc' = "loading"
    /\ frame' = [date_filter |-> date_filter, found_date |-> FALSE, nread |-> 0]
    /\ ret' = NoRet
    /\ UNCHANGED <<variant, yield_points, curve_date>>

\* a line that is too short or whose date does not match: nothing changes
LoadSkipLine(line) ==
    /\ pc = "loading"
    /\ frame.nread < MaxLines
    /\ ~Selected(TokensOf[line], frame.date_filter)
    /\ frame' = [frame EXCEPT !.nread = @ + 1]
    /\ UNCHANGED <<variant, yield_points, curve_date, pc, ret>>

\* mutation: the points are replaced and the date is kept
LoadTakeLineKeepingDate(line) ==
    LET tokens == TokensOf[line]
        fill   == Fill(tokens)
    IN  /\ pc = "loading"
        /\ frame.nread < MaxLines
        /\ frame.date_filter = ""
        /\ Selected(tokens, frame.date_filter)
        /\ fill.thrown = "none"
        /\ yield_points' = fill.points
        /\ frame' = [frame EXCEPT !.found_date = TRUE, !.nread = @ + 1]
        /\ UNCHANGED <<variant, curve_date, pc, ret>>

\* a selected line with no filter: the curve is replaced, found_date = true,
\* and the loop goes on
LoadTakeLine(line) ==
    LET tokens == TokensOf[line]
        fill   == Fill(tokens)
    IN  /\ pc = "loading"
        /\ frame.nread < MaxLines
        /\ frame.date_filter = ""
        /\ Selected(tokens, frame.date_filter)
        /\ fill.thrown = "none"
        /\ curve_date' = tokens[1]
        /\ yield_points' = fill.points
        /\ frame' = [frame EXCEPT !.found_date = TRUE, !.nread = @ + 1]
        /\ UNCHANGED <<variant, pc, ret>>

\* a selected line with a filter: the curve is replaced, the loop is left by
\* break, the points are sorted and the call returns found_date = true
LoadTakeLineAndStop(line) ==
    LET tokens == TokensOf[line]
        fill   == Fill(tokens)
    IN  /\ pc = "loading"
        /\ frame.nread < MaxLines
        /\ frame.date_filter # ""
        /\ Selected(tokens, frame.date_filter)
        /\ fill.thrown = "none"
        /\ curve_date' = tokens[1]
        /\ yield_points' = SortByMaturity(fill.points)
        /\ pc' = "idle"
        /\ frame' = NoFrame
        /\ ret' = LoadRet(frame.date_filter, TRUE, TRUE)
        /\ UNCHANGED variant

\* a selected line on which std::stod throws an exception no handler of the
\* program catches: the date is set, the points parsed so far are in the
\* vector, and std::terminate ends the process
LoadThrow(line) ==
    LET tokens == TokensOf[line]
        fill   == Fill(tokens)
    IN  /\ pc = "loading"
        /\ frame.nread < MaxLines
        /\ Selected(tokens, frame.date_filter)
        /\ fill.thrown # "none"
        /\ curve_date' = tokens[1]
        /\ yield_points' = fill.points
        /\ pc' = "aborted"
        /\ frame' = NoFrame
        /\ ret' = [op |-> "loadFromCSV", args |-> <<frame.date_filter>>,
                   thrown |-> fill.thrown]
        /\ UNCHANGED variant

\* mutation: a load that found no row leaves an empty store
LoadEofClearing ==
    /\ pc = "loading"
    /\ yield_points' = IF frame.found_date THEN SortByMaturity(yield_points) ELSE <<>>
    /\ pc' = "idle"
    /\ frame' = NoFrame
    /\ ret' = LoadRet(frame.date_filter, TRUE, frame.found_date)
    /\ UNCHANGED <<variant, curve_date>>

\* std::getline fails at the end of the file: sort, close, return found_date
LoadEof ==
    /\ pc = "loading"
    /\ yield_points' = SortByMaturity(yield_points)
    /\ pc' = "idle"
    /\ frame' = NoFrame
    /\ ret' = LoadRet(frame.date_filter, TRUE, frame.found_date)
    /\ UNCHANGED <<variant, curve_date>>

(***************************************************************************)
(* loadFromCSV as one step: the whole call over a file whose lines are     *)
(* given, for the properties that relate the result of a call to its file. *)
(***************************************************************************)
\* the lines of the files of whole calls: a full row, a row of N/A fields and
\* a row of six value fields
ReloadLines ==
    { "2024-01-02,5.5,5.0,4.9,4.7,4.5,4.3,3.0,4.0,4.2,4.6,4.8",
      "2024-05-02,N/A,N/A,N/A,N/A,N/A,N/A,N/A,N/A,N/A,N/A,N/A",
      "2024-06-03,5.3,5.2,4.7,4.4,4.3,4.5" }

\* the data lines of a file, at most MaxLines of them
Files == UNION {[1..n -> ReloadLines] : n \in 0..MaxLines}

\* the value fields of every line as each class parses them, parsed once
FillOf ==
    [l \in Lines |-> [live |-> FillLive(TokensOf[l], 0, <<>>),
                      legacy |-> FillLegacy(TokensOf[l], 1, 1, <<>>)]]

FillLine(line) == IF variant = "live" THEN FillOf[line].live ELSE FillOf[line].legacy

\* loadFromCSV's view of the object and its locals between two lines
LoadState(points, date) ==
    [points |-> points, date |-> date, found_date |-> FALSE, thrown |-> "none",
     broke |-> FALSE]

\* mutation: the points of the row are added to those already stored
LoadRowAppending(st, line, date_filter) ==
    LET fill == FillLine(line)
    IN  [points |-> st.points \o fill.points,
         date |-> TokensOf[line][1],
         found_date |-> (st.found_date \/ fill.thrown = "none"),
         thrown |-> fill.thrown,
         broke |-> (fill.thrown = "none" /\ date_filter # "")]

\* the loop body for a selected line: curve_date = date, clear, the value
\* fields, found_date = true, and break if there is a filter; an exception of
\* std::stod leaves the function before found_date is set
LoadRow(st, line, date_filter) ==
    LET fill == FillLine(line)
    IN  [points |-> fill.points,
         date |-> TokensOf[line][1],
         found_date |-> (st.found_date \/ fill.thrown = "none"),
         thrown |-> fill.thrown,
         broke |-> (fill.thrown = "none" /\ date_filter # "")]

\* the while loop from the i-th data line of the file
RECURSIVE LoadLoop(_, _, _, _)
LoadLoop(file, i, date_filter, st) ==
    IF i > Len(file) \/ st.thrown # "none" \/ st.broke THEN st
    ELSE IF Selected(TokensOf[file[i]], date_filter)
         THEN LoadLoop(file, i + 1, date_filter, LoadRow(st, file[i], date_filter))
         ELSE LoadLoop(file, i + 1, date_filter, st)

\* the call on a store that holds points and date: the loop, then the sort
\* unless an exception left the function
loadFromCSV(file, date_filter, points, date) ==
    LET st == LoadLoop(file, 1, date_filter, LoadState(points, date))
    IN  [points |-> IF st.thrown = "none" THEN SortByMaturity(st.points) ELSE st.points,
         date |-> st.date,
         val |-> st.found_date,
         thrown |-> st.thrown]

\* a whole call of loadFromCSV on a file that opens; ret also keeps the file
\* that was read and the store the call found
LoadFromCSV(file, date_filter) ==
    LET r == loadFromCSV(file, date_filter, yield_points, curve_date)
    IN  /\ pc = "idle"
        /\ yield_points' = r.points
        /\ curve_date' = r.date
        /\ pc' = IF r.thrown = "none" THEN "idle" ELSE "aborted"
        /\ ret' = [op |-> "loadFromCSV", args |-> <<date_filter>>, opened |-> TRUE,
                   val |-> r.val, thrown |-> r.thrown, file |-> file,
                   before |-> [points |-> yield_points, date |-> curve_date]]
        /\ UNCHANGED <<variant, frame>>

(***************************************************************************)
(* The values of a double expression: a finite real, NaN, an infinity, or  *)
(* a real that is no rational (a product of real powers)                   *)
(***************************************************************************)
Fin(r) == [k |-> "fin", v |-> r]

NaN == [k |-> "nan"]

Inf(s) == [k |-> "inf", s |-> s]

\* a / b in IEEE-754 arithmetic, a and b finite
DblDiv(a, b) ==
    IF b # Zero THEN Fin(RatDiv(a, b))
    ELSE IF a = Zero THEN NaN
    ELSE Inf(Sgn(a[1]))

(***************************************************************************)
(* The queries                                                             *)
(***************************************************************************)
\* the tolerances 1e-6 of getYield and 1e-9 of linearInterpolation
\* mutation: a tolerance of one year
ExactTolWide == Rat(1, 1)

ExactTol == Rat(1, 1000000)

DegenerateTol == Rat(1, 1000000000)

\* mutation: the slope applied to the distance from x2
linearInterpolationFromRight(x, x1, y1, x2, y2) ==
    IF RatLess(RatAbs(RatSub(x2, x1)), DegenerateTol) THEN y1
    ELSE RatAdd(y1, RatDiv(RatMul(RatSub(y2, y1), RatSub(x, x2)), RatSub(x2, x1)))

linearInterpolation(x, x1, y1, x2, y2) ==
    IF RatLess(RatAbs(RatSub(x2, x1)), DegenerateTol) THEN y1
    ELSE RatAdd(y1, RatDiv(RatMul(RatSub(y2, y1), RatSub(x, x1)), RatSub(x2, x1)))

\* the indexes of the points the "exact match" loop of getYield accepts
ExactMatches(maturity) ==
    {i \in 1..Len(yield_points) :
        RatLess(RatAbs(RatSub(yield_points[i].maturity, maturity)), ExactTol)}

\* mutation: the bracket loop finds no pair of points
BracketsNone(maturity) == {}

\* the indexes i (1-based) at which the bracket loop of getYield returns
Brackets(maturity) ==
    {i \in 1..(Len(yield_points) - 1) :
        /\ RatLeq(yield_points[i].maturity, maturity)
        /\ RatGeq(yield_points[i + 1].maturity, maturity)}

Min(S) == CHOOSE i \in S : \A j \in S : i <= j

\* mutation: the two ends of the curve exchanged in the extrapolation
getYieldEndsSwapped(maturity) ==
    IF yield_points = <<>> THEN Zero
    ELSE IF ExactMatches(maturity) # {}
    THEN yield_points[Min(ExactMatches(maturity))].yield
    ELSE IF RatLeq(maturity, yield_points[1].maturity)
    THEN yield_points[Len(yield_points)].yield
    ELSE IF RatGeq(maturity, yield_points[Len(yield_points)].maturity)
    THEN yield_points[1].yield
    ELSE IF Brackets(maturity) # {}
    THEN LET i == Min(Brackets(maturity))
         IN  linearInterpolation(maturity,
                                 yield_points[i].maturity, yield_points[i].yield,
                                 yield_points[i + 1].maturity, yield_points[i + 1].yield)
    ELSE Zero

getYield(maturity) ==
    IF yield_points = <<>> THEN Zero
    ELSE IF ExactMatches(maturity) # {}
    THEN yield_points[Min(ExactMatches(maturity))].yield
    ELSE IF RatLeq(maturity, yield_points[1].maturity)
    THEN yield_points[1].yield
    ELSE IF RatGeq(maturity, yield_points[Len(yield_points)].maturity)
    THEN yield_points[Len(yield_points)].yield
    ELSE IF Brackets(maturity) # {}
    THEN LET i == Min(Brackets(maturity))
         IN  linearInterpolation(maturity,
                                 yield_points[i].maturity, yield_points[i].yield,
                                 yield_points[i + 1].maturity, yield_points[i + 1].yield)
    ELSE Zero

\* getYield for an argument x that is no finite number.  Every comparison with
\* NaN is false: no exact match, neither boundary test, no bracket, and the
\* function ends at its last line, return 0.0.  An infinity is at no finite
\* distance of a point and lies beyond one end of the curve.
getYieldNonFinite(x) ==
    IF yield_points = <<>> THEN Zero
    ELSE IF x = Inf(-1) THEN yield_points[1].yield
    ELSE IF x = Inf(1) THEN yield_points[Len(yield_points)].yield
    ELSE Zero

\* mutation: the operands exchanged
getSpreadReversed(maturity1, maturity2) == RatSub(getYield(maturity1), getYield(maturity2))

getSpread(maturity1, maturity2) == RatSub(getYield(maturity2), getYield(maturity1))

\* mutation: 0.0 on an empty store
getDurationZeroWhenEmpty(maturity, coupon_rate) ==
    LET yield == RatDiv(getYield(maturity), Hundred)
    IN  IF yield_points = <<>> THEN Fin(Zero)
        ELSE IF coupon_rate = Zero THEN Fin(maturity)
        ELSE DblDiv(maturity, RatAdd(One, yield))

\* mutation: the zero-coupon case not told apart
getDurationAlwaysModified(maturity, coupon_rate) ==
    LET yield == RatDiv(getYield(maturity), Hundred)
    IN  DblDiv(maturity, RatAdd(One, yield))

getDuration(maturity, coupon_rate) ==
    LET yield == RatDiv(getYield(maturity), Hundred)
    IN  IF coupon_rate = Zero THEN Fin(maturity)
        ELSE DblDiv(maturity, RatAdd(One, yield))

\* the thresholds 0.2, 0.1 and 0.5 of analyzeCurveShape
HumpMargin == Rat(2, 10)

InvertMargin == Rat(1, 10)

SteepMargin == Rat(5, 10)

NormalMargin == Rat(1, 10)

MinShapePoints == 3

\* mutation: the Inverted rule tried before the Humped rule
analyzeCurveShapeInvertedFirst ==
    IF Len(yield_points) < MinShapePoints THEN "Insufficient Data"
    ELSE LET short_rate  == getYield(Rat(1, 4))
             medium_rate == getYield(Rat(5, 1))
             long_rate   == getYield(Rat(30, 1))
         IN  IF RatGt(short_rate, RatAdd(long_rate, InvertMargin)) THEN "Inverted"
             ELSE IF /\ RatGt(short_rate, RatAdd(medium_rate, HumpMargin))
                     /\ RatGt(long_rate, RatAdd(medium_rate, HumpMargin))
             THEN "Humped"
             ELSE IF RatGt(long_rate, RatAdd(short_rate, SteepMargin)) THEN "Steep Normal"
             ELSE IF RatGt(long_rate, RatAdd(short_rate, NormalMargin)) THEN "Normal"
             ELSE "Flat"

\* mutation: the Normal rule tried before the Steep Normal rule
analyzeCurveShapeNormalFirst ==
    IF Len(yield_points) < MinShapePoints THEN "Insufficient Data"
    ELSE LET short_rate  == getYield(Rat(1, 4))
             medium_rate == getYield(Rat(5, 1))
             long_rate   == getYield(Rat(30, 1))
         IN  IF /\ RatGt(short_rate, RatAdd(medium_rate, HumpMargin))
                /\ RatGt(long_rate, RatAdd(medium_rate, HumpMargin))
             THEN "Humped"
             ELSE IF RatGt(short_rate, RatAdd(long_rate, InvertMargin)) THEN "Inverted"
             ELSE IF RatGt(long_rate, RatAdd(short_rate, NormalMargin)) THEN "Normal"
             ELSE IF RatGt(long_rate, RatAdd(short_rate, SteepMargin)) THEN "Steep Normal"
             ELSE "Flat"

\* YieldCurveLive::analyzeCurveShape
analyzeCurveShape ==
    IF Len(yield_points) < MinShapePoints THEN "Insufficient Data"
    ELSE LET short_rate  == getYield(Rat(1, 4))
             medium_rate == getYield(Rat(5, 1))
             long_rate   == getYield(Rat(30, 1))
         IN  IF /\ RatGt(short_rate, RatAdd(medium_rate, HumpMargin))
                /\ RatGt(long_rate, RatAdd(medium_rate, HumpMargin))
             THEN "Humped"
             ELSE IF RatGt(short_rate, RatAdd(long_rate, InvertMargin)) THEN "Inverted"
             ELSE IF RatGt(long_rate, RatAdd(short_rate, SteepMargin)) THEN "Steep Normal"
             ELSE IF RatGt(long_rate, RatAdd(short_rate, NormalMargin)) THEN "Normal"
             ELSE "Flat"

(***************************************************************************)
(* std::pow and the quotient of two powers, in exact real arithmetic.      *)
(* A power value is NaN, an infinity, zero, or sign * product of b^e over  *)
(* the pairs <<b, e>> of a set m (b a rational > 0 and # 1, e a rational   *)
(* # 0, no base twice); the empty product is 1.                            *)
(***************************************************************************)
PNaN == [k |-> "nan"]

PInf(s) == [k |-> "inf", s |-> s]

PZero == [k |-> "zero"]

PFin(s, m) == [k |-> "fin", s |-> s, m |-> m]

\* the double r as a power value
FromRat(r) ==
    IF r = Zero THEN PZero
    ELSE PFin(Sgn(r[1]), IF RatAbs(r) = One THEN {} ELSE {<<RatAbs(r), One>>})

IsOddInt(e) == RatIsInt(e) /\ e[1] % 2 = 1

ScaleExps(m, e) == {<<t[1], RatMul(t[2], e)>> : t \in m}

ExpOf(m, b) ==
    IF \E t \in m : t[1] = b THEN (CHOOSE t \in m : t[1] = b)[2] ELSE Zero

\* the exponents of m1 less those of m2
QuotExps(m1, m2) ==
    LET bases == {t[1] : t \in m1 \cup m2}
    IN  {<<b, RatSub(ExpOf(m1, b), ExpOf(m2, b))>> :
            b \in {c \in bases : ExpOf(m1, c) # ExpOf(m2, c)}}

\* std::pow(x, e) for a finite exponent e (C99 F.9.4.4): pow(x, 0) is 1 for
\* every x; a negative finite x with a non-integer e is a domain error, whose
\* result is NaN (no C++ exception is thrown); pow(0, e) is 0 for e > 0 and a
\* pole error (+infinity) for e < 0
pow(x, e) ==
    IF e = Zero THEN PFin(1, {})
    ELSE CASE x.k = "nan"  -> PNaN
           [] x.k = "zero" -> IF RatLess(Zero, e) THEN PZero ELSE PInf(1)
           [] x.k = "inf"  -> IF RatLess(Zero, e)
                              THEN PInf(IF x.s = -1 /\ IsOddInt(e) THEN -1 ELSE 1)
                              ELSE PZero
           [] x.k = "fin"  -> IF x.s = 1 THEN PFin(1, ScaleExps(x.m, e))
                              ELSE IF RatIsInt(e)
                              THEN PFin(IF IsOddInt(e) THEN -1 ELSE 1, ScaleExps(x.m, e))
                              ELSE PNaN

\* a / b in IEEE-754 arithmetic
PowDiv(a, b) ==
    CASE a.k = "nan" \/ b.k = "nan" -> PNaN
      [] a.k = "zero" /\ b.k = "zero" -> PNaN
      [] a.k = "inf" /\ b.k = "inf" -> PNaN
      [] a.k = "zero" -> PZero
      [] b.k = "inf" -> PZero
      [] a.k = "inf" /\ b.k = "zero" -> PInf(a.s)
      [] a.k = "inf" -> PInf(a.s * b.s)
      [] b.k = "zero" -> PInf(a.s)
      [] OTHER -> PFin(a.s * b.s, QuotExps(a.m, b.m))

\* (p - 1.0) * 100.0: a rational when p is one, and otherwise the real
\* 100 * (s * product - 1), kept as the expression it is
GrowthPercent(p) ==
    CASE p.k = "nan" -> NaN
      [] p.k = "inf" -> Inf(p.s)
      [] p.k = "zero" -> Fin(Rat(-100, 1))
      [] OTHER ->
           IF p.m = {} THEN Fin(Rat((p.s - 1) * 100, 1))
           ELSE IF \E t \in p.m : p.m = {t} /\ t[2] = One
           THEN LET t == CHOOSE u \in p.m : TRUE
                IN  Fin(RatMul(RatSub(RatMul(Rat(p.s, 1), t[1]), One), Hundred))
           ELSE IF \E t \in p.m : p.m = {t} /\ t[2] = Rat(-1, 1)
           THEN LET t == CHOOSE u \in p.m : TRUE
                IN  Fin(RatMul(RatSub(RatMul(Rat(p.s, 1), RatInv(t[1])), One), Hundred))
           ELSE [k |-> "expr", s |-> p.s, m |-> p.m]

\* mutation: 0.0 for equal maturities only
getForwardRateEqualOnly(start_maturity, end_maturity) ==
    IF end_maturity = start_maturity THEN Fin(Zero)
    ELSE LET y1 == RatDiv(getYield(start_maturity), Hundred)
             y2 == RatDiv(getYield(end_maturity), Hundred)
         IN  GrowthPercent(
                 pow(PowDiv(pow(FromRat(RatAdd(One, y2)), end_maturity),
                            pow(FromRat(RatAdd(One, y1)), start_maturity)),
                     RatDiv(One, RatSub(end_maturity, start_maturity))))

\* mutation: the quotient of the powers not annualised
getForwardRateNoRoot(start_maturity, end_maturity) ==
    IF RatLeq(end_maturity, start_maturity) THEN Fin(Zero)
    ELSE LET y1 == RatDiv(getYield(start_maturity), Hundred)
             y2 == RatDiv(getYield(end_maturity), Hundred)
         IN  GrowthPercent(
                 PowDiv(pow(FromRat(RatAdd(One, y2)), end_maturity),
                        pow(FromRat(RatAdd(One, y1)), start_maturity)))

\* getForwardRate of both classes.  The live class wraps the arithmetic in
\* try { } catch (const std::exception&) { return 0.0; }; std::pow reports a
\* domain error by returning NaN and throws nothing, so the handler is never
\* entered and both classes compute the same value.
getForwardRate(start_maturity, end_maturity) ==
    IF RatLeq(end_maturity, start_maturity) THEN Fin(Zero)
    ELSE LET y1 == RatDiv(getYield(start_maturity), Hundred)
             y2 == RatDiv(getYield(end_maturity), Hundred)
         IN  GrowthPercent(
                 pow(PowDiv(pow(FromRat(RatAdd(One, y2)), end_maturity),
                            pow(FromRat(RatAdd(One, y1)), start_maturity)),
                     RatDiv(One, RatSub(end_maturity, start_maturity))))

(***************************************************************************)
(* The reports: exportToJSON and printCurve of the live class.  A report   *)
(* is modelled by the values and the literal texts it writes; a number is  *)
(* recorded as the double handed to operator<<, before its formatting.     *)
(***************************************************************************)
\* spread * 100, the basis points of a spread
BasisPoints(spread) == RatMul(spread, Hundred)

\* the thresholds -0.2, 1.0 and -0.1 of exportToJSON's economic_indicators
RecessionThreshold == Rat(-2, 10)

SteepThreshold == Rat(1, 1)

InvertedThreshold == Rat(-1, 10)

\* mutation: the threshold taken in basis points
recessionWarningInBasisPoints(recession_spread) == RatLess(recession_spread, Rat(-20, 1))

\* recession_spread < -0.2 ? "true" : "false"
recessionWarning(recession_spread) == RatLess(recession_spread, RecessionThreshold)

\* mutation: a spread of exactly 1.0 counts as steep
curveSteepnessInclusive(recession_spread) ==
    IF RatGeq(recession_spread, SteepThreshold) THEN "steep"
    ELSE IF RatLess(recession_spread, InvertedThreshold) THEN "inverted"
    ELSE "flat"

\* recession_spread > 1.0 ? "steep" : recession_spread < -0.1 ? "inverted" : "flat"
curveSteepness(recession_spread) ==
    IF RatGt(recession_spread, SteepThreshold) THEN "steep"
    ELSE IF RatLess(recession_spread, InvertedThreshold) THEN "inverted"
    ELSE "flat"

\* the object YieldCurveLive::exportToJSON writes
exportToJSON ==
    [ date |-> curve_date,
      curve_shape |-> analyzeCurveShape,
      yield_points |->
          [i \in 1..Len(yield_points) |->
              [ maturity_label |-> yield_points[i].maturity_label,
                maturity_years |-> yield_points[i].maturity,
                yield |-> yield_points[i].yield,
                duration |-> getDuration(yield_points[i].maturity, Zero) ]],
      key_spreads |->
          [ s2s10s_bps |-> BasisPoints(getSpread(Rat(2, 1), Rat(10, 1))),
            s3m10y_bps |-> BasisPoints(getSpread(Rat(1, 4), Rat(10, 1))),
            s5s30s_bps |-> BasisPoints(getSpread(Rat(5, 1), Rat(30, 1))),
            s1m3m_bps |-> BasisPoints(getSpread(Rat(1, 12), Rat(1, 4))) ],
      forward_rates |->
          [ f1y1y |-> getForwardRate(Rat(1, 1), Rat(2, 1)),
            f2y1y |-> getForwardRate(Rat(2, 1), Rat(3, 1)),
            f5y5y |-> getForwardRate(Rat(5, 1), Rat(10, 1)),
            f10y10y |-> getForwardRate(Rat(10, 1), Rat(20, 1)) ],
      economic_indicators |->
          [ recession_warning |-> recessionWarning(getSpread(Rat(2, 1), Rat(10, 1))),
            term_premium_bps |-> BasisPoints(getSpread(Rat(10, 1), Rat(30, 1))),
            curve_steepness |-> curveSteepness(getSpread(Rat(2, 1), Rat(10, 1))) ] ]

\* the annotation printCurve puts behind the 2s10s spread: the spread, in
\* percentage points, against -0.2, 0 and 0.5
spreadAnnotation(spread_2s10s) ==
    IF RatLess(spread_2s10s, Rat(-2, 10)) THEN "RECESSION WARNING"
    ELSE IF RatLess(spread_2s10s, Zero) THEN "INVERTED"
    ELSE IF RatLess(spread_2s10s, Rat(5, 10)) THEN "FLATTENING"
    ELSE "NORMAL"

\* the tier of the line "Recession Probability": the same spread, still in
\* percentage points, against -20, 0 and 50
recessionProbability(spread_2s10s) ==
    IF RatLess(spread_2s10s, Rat(-20, 1)) THEN "HIGH"
    ELSE IF RatLess(spread_2s10s, Zero) THEN "ELEVATED"
    ELSE IF RatLess(spread_2s10s, Rat(50, 1)) THEN "LOW-MODERATE"
    ELSE "LOW"

\* what YieldCurveLive::printCurve prints
printCurve ==
    [ date |-> curve_date,
      points |->
          [i \in 1..Len(yield_points) |->
              [ maturity_label |-> yield_points[i].maturity_label,
                yield |-> yield_points[i].yield,
                duration |-> getDuration(yield_points[i].maturity, Zero),
                dv01 |-> RatMul(yield_points[i].maturity, Hundred) ]],
      shape |-> analyzeCurveShape,
      spread_2s10s |-> BasisPoints(getSpread(Rat(2, 1), Rat(10, 1))),
      annotation |-> spreadAnnotation(getSpread(Rat(2, 1), Rat(10, 1))),
      spread_3m10y |-> BasisPoints(getSpread(Rat(1, 4), Rat(10, 1))),
      spread_5s30s |-> BasisPoints(getSpread(Rat(5, 1), Rat(30, 1))),
      forward_1y1y |-> getForwardRate(Rat(1, 1), Rat(2, 1)),
      forward_2y1y |-> getForwardRate(Rat(2, 1), Rat(3, 1)),
      forward_5y5y |-> getForwardRate(Rat(5, 1), Rat(10, 1)),
      recession_probability |-> recessionProbability(getSpread(Rat(2, 1), Rat(10, 1))),
      term_premium |-> BasisPoints(RatSub(getYield(Rat(30, 1)), getYield(Rat(10, 1)))) ]

(***************************************************************************)
(* The arguments the queries are called with                               *)
(***************************************************************************)
\* half the exact-match tolerance
HalfTol == Rat(1, 2000000)

YieldArgs ==
    { Rat(-1, 1), Zero, Rat(1, 24), RatSub(Rat(1, 12), HalfTol), Rat(1, 12),
      RatSub(Rat(1, 4), RatAdd(ExactTol, ExactTol)), RatSub(Rat(1, 4), ExactTol),
      RatSub(Rat(1, 4), HalfTol), Rat(1, 4), RatAdd(Rat(1, 4), HalfTol),
      RatAdd(Rat(1, 4), ExactTol), RatAdd(Rat(1, 4), RatAdd(ExactTol, ExactTol)),
      Rat(1, 2), Rat(1, 1), Rat(3, 2), RatSub(Rat(2, 1), HalfTol), Rat(2, 1),
      RatAdd(Rat(2, 1), HalfTol), Rat(3, 1), Rat(4, 1), Rat(5, 1), Rat(15, 2),
      Rat(10, 1), Rat(15, 1), Rat(20, 1), RatSub(Rat(30, 1), HalfTol), Rat(30, 1),
      RatAdd(Rat(30, 1), HalfTol), Rat(40, 1) }

NonFiniteArgs == {NaN, Inf(1), Inf(-1)}

SpreadArgs == {Rat(1, 4), Rat(2, 1), Rat(5, 1), Rat(10, 1), Rat(30, 1)}

ForwardArgs == {Zero, Rat(1, 4), Rat(1, 2), Rat(1, 1), Rat(2, 1), Rat(3, 1), Rat(10, 1)}

DurationArgs == {Zero, Rat(1, 4), Rat(2, 1), Rat(5, 1), Rat(30, 1)}

CouponArgs == {Zero, Rat(5, 1), Rat(-1, 1)}

(***************************************************************************)
(* The query calls: each returns a value and changes nothing else          *)
(***************************************************************************)
\* mutation: the query consumes the points it read
GetYieldClearing(maturity) ==
    /\ pc = "idle"
    /\ ret' = [op |-> "getYield", args |-> <<maturity>>, val |-> Fin(getYield(maturity))]
    /\ yield_points' = <<>>
    /\ UNCHANGED <<variant, curve_date, pc, frame>>

GetYield(maturity) ==
    /\ pc = "idle"
    /\ ret' = [op |-> "getYield", args |-> <<maturity>>, val |-> Fin(getYield(maturity))]
    /\ UNCHANGED <<variant, yield_points, curve_date, pc, frame>>

GetYieldNonFinite(x) ==
    /\ pc = "idle"
    /\ ret' = [op |-> "getYieldNonFinite", args |-> <<x>>, val |-> Fin(getYieldNonFinite(x))]
    /\ UNCHANGED <<variant, yield_points, curve_date, pc, frame>>

GetForwardRate(start_maturity, end_maturity) ==
    /\ pc = "idle"
    /\ ret' = [op |-> "getForwardRate", args |-> <<start_maturity, end_maturity>>,
               val |-> getForwardRate(start_maturity, end_maturity)]
    /\ UNCHANGED <<variant, yield_points, curve_date, pc, frame>>

GetDuration(maturity, coupon_rate) ==
    /\ pc = "idle"
    /\ ret' = [op |-> "getDuration", args |-> <<maturity, coupon_rate>>,
               val |-> getDuration(maturity, coupon_rate)]
    /\ UNCHANGED <<variant, yield_points, curve_date, pc, frame>>

GetSpread(maturity1, maturity2) ==
    /\ pc = "idle"
    /\ ret' = [op |-> "getSpread", args |-> <<maturity1, maturity2>>,
               val |-> Fin(getSpread(maturity1, maturity2))]
    /\ UNCHANGED <<variant, yield_points, curve_date, pc, frame>>

\* only the live class has analyzeCurveShape
AnalyzeCurveShape ==
    /\ pc = "idle"
    /\ variant = "live"
    /\ ret' = [op |-> "analyzeCurveShape", args |-> <<>>, val |-> analyzeCurveShape]
    /\ UNCHANGED <<variant, yield_points, curve_date, pc, frame>>

\* only the live class writes economic_indicators; an output file that does
\* not open leaves "Error: Could not create file" and nothing else
ExportOpenFail ==
    /\ pc = "idle"
    /\ variant = "live"
    /\ ret' = [op |-> "exportToJSON", args |-> <<>>, opened |-> FALSE]
    /\ UNCHANGED <<variant, yield_points, curve_date, pc, frame>>

ExportToJSON ==
    /\ pc = "idle"
    /\ variant = "live"
    /\ ret' = [op |-> "exportToJSON", args |-> <<>>, opened |-> TRUE, val |-> exportToJSON]
    /\ UNCHANGED <<variant, yield_points, curve_date, pc, frame>>

\* only the live class prints the annotation and the recession probability
PrintCurve ==
    /\ pc = "idle"
    /\ variant = "live"
    /\ ret' = [op |-> "printCurve", args |-> <<>>, val |-> printCurve]
    /\ UNCHANGED <<variant, yield_points, curve_date, pc, frame>>

(***************************************************************************)
(* The specification                                                       *)
(***************************************************************************)
\* YieldCurve(date = "") and YieldCurveLive(date = ""): no points, the
\* programs construct their curves with the default date
Init ==
    /\ variant \in {"legacy", "live"}
    /\ yield_points = <<>>
    /\ curve_date = ""
    /\ pc = "idle"
    /\ frame = NoFrame
    /\ ret = NoRet

Next ==
    \/ \E f \in Filters : LoadOpenFail(f)
    \/ \E f \in Filters : LoadBegin(f)
    \/ \E l \in Lines : LoadSkipLine(l)
    \/ \E l \in Lines : LoadTakeLine(l)
    \/ \E l \in Lines : LoadTakeLineAndStop(l)
    \/ \E l \in Lines : LoadThrow(l)
    \/ LoadEof
    \/ \E m \in YieldArgs : GetYield(m)
    \/ \E x \in NonFiniteArgs : GetYieldNonFinite(x)
    \/ \E t1 \in ForwardArgs, t2 \in ForwardArgs : GetForwardRate(t1, t2)
    \/ \E m \in DurationArgs, c \in CouponArgs : GetDuration(m, c)
    \/ \E m1 \in SpreadArgs, m2 \in SpreadArgs : GetSpread(m1, m2)
    \/ AnalyzeCurveShape
    \/ ExportOpenFail
    \/ ExportToJSON
    \/ PrintCurve

Spec == Init /\ [][Next]_vars

\* the calls of loadFromCSV alone, each as one step
LoadNext ==
    \/ \E f \in Filters : LoadOpenFail(f)
    \/ \E file \in Files, f \in Filters : LoadFromCSV(file, f)

LoadSpec == Init /\ [][LoadNext]_vars

(***************************************************************************)
(* The menu loop of main (main.cpp for the legacy class, main_live.cpp for *)
(* the live class).  pc is the position in the loop: "menu" before the     *)
(* choice is read, "switch" before the switch, "pause" before the          *)
(* "Press Enter to continue" block, "exited" after the loop.  frame holds  *)
(* std::cin (the characters not yet read, and whether the stream is still  *)
(* good()), choice, and the CSV file the program was started on.  What the *)
(* cases print and export is not part of the state.                        *)
(***************************************************************************)
\* case 6 of main.cpp and case 8 of main_live.cpp: running = false
ExitChoiceLegacy == 6

ExitChoiceLive == 8

ExitChoice == IF variant = "live" THEN ExitChoiceLive ELSE ExitChoiceLegacy

\* the cases that load and run the full analysis, the cases that read two
\* numbers, and the cases that load and hand a second curve to a report
AnalysisChoices == IF variant = "live" THEN {1, 6} ELSE {1}

CustomChoices == {3, 4}

ReportChoices == IF variant = "live" THEN {5, 7} ELSE {5}

Rest(s, i) == SubSeq(s, i, Len(s))

Cin(buf, good) == [buf |-> buf, good |-> good]

\* std::cin >> choice.  A stream that is not good() extracts nothing and leaves
\* choice as it is; so does the end of the input met while white space is
\* skipped.  Characters that are no number store 0 and set failbit; digits
\* that run to the end of the input are stored and set eofbit.
ReadAfterSign(cin, j, sign, d) ==
    IF d.cnt = 0 THEN [cin |-> Cin(Rest(cin.buf, j), FALSE), val |-> 0]
    ELSE [cin |-> Cin(Rest(cin.buf, d.next), d.next <= Len(cin.buf)), val |-> sign * d.val]

ReadIntFrom(cin, i, old) ==
    IF i > Len(cin.buf) THEN [cin |-> Cin("", FALSE), val |-> old]
    ELSE IF Char(cin.buf, i) \in {"+", "-"}
    THEN ReadAfterSign(cin, i + 1, IF Char(cin.buf, i) = "-" THEN -1 ELSE 1,
                       ScanDigits(cin.buf, i + 1, 0, 0))
    ELSE ReadAfterSign(cin, i, 1, ScanDigits(cin.buf, i, 0, 0))

ReadInt(cin, old) ==
    IF ~cin.good THEN [cin |-> cin, val |-> old]
    ELSE ReadIntFrom(cin, SkipSpace(cin.buf, 1), old)

\* the position after the run of characters from i that are no white space
RECURSIVE WordEnd(_, _)
WordEnd(s, i) == IF i <= Len(s) /\ ~IsSpace(Char(s, i)) THEN WordEnd(s, i + 1) ELSE i

\* std::cin >> date: the next run of characters that are no white space; the
\* string stays empty when nothing is extracted
ReadWordFrom(cin, i, j) ==
    IF i > Len(cin.buf) THEN [cin |-> Cin("", FALSE), val |-> ""]
    ELSE [cin |-> Cin(Rest(cin.buf, j), j <= Len(cin.buf)), val |-> SubSeq(cin.buf, i, j - 1)]

ReadWord(cin) ==
    IF ~cin.good THEN [cin |-> cin, val |-> ""]
    ELSE ReadWordFrom(cin, SkipSpace(cin.buf, 1), WordEnd(cin.buf, SkipSpace(cin.buf, 1)))

\* std::cin >> start_mat: the stream after the extraction of a double written
\* as digits with an optional point (the inputs carry no sign and no exponent)
ReadDoubleFrom(cin, i, ip, fp) ==
    IF i > Len(cin.buf) THEN Cin("", FALSE)
    ELSE IF ip.cnt + fp.cnt = 0 THEN Cin(Rest(cin.buf, i), FALSE)
    ELSE Cin(Rest(cin.buf, fp.next), fp.next <= Len(cin.buf))

ReadDoubleAt(cin, i, ip) == ReadDoubleFrom(cin, i, ip, FracPart(cin.buf, ip.next))

ReadDouble(cin) ==
    IF ~cin.good THEN cin
    ELSE ReadDoubleAt(cin, SkipSpace(cin.buf, 1),
                      ScanDigits(cin.buf, SkipSpace(cin.buf, 1), 0, 0))

\* std::cin.ignore() and std::cin.get(): one character each, if the stream is
\* good() and has one
TakeChar(cin) ==
    IF ~cin.good THEN cin
    ELSE IF cin.buf = "" THEN Cin("", FALSE)
    ELSE Cin(Rest(cin.buf, 2), TRUE)

\* the values an int that was never assigned may be read as
IndeterminateChoices == {0, 1, 3, ExitChoiceLegacy, ExitChoiceLive}

\* what the user types, to the end of the input
MenuInputs ==
    { "", "8\n", "6\n", "8", "1\n\n8\n", "1\n\n6\n", "1\n8\n", "x\n", "9\n\n", "1\n\n",
      "2\n2024-01\n\n8\n", "2\n-02\n\n6\n", "2\n", "3\n1 2\n\n8\n", "4\n2 10.5\n\n6\n",
      "3\n1 x\n\n8\n", "5\n\n6\n", "5\n\n8\n", "7\n\n8\n", "6\n\n8\n", "1\n\nq\n" }

\* the data lines of the CSV file the program is started on
MenuFiles ==
    { <<>>,
      <<"2024-01-02,5.5,5.0,4.9,4.7,4.5,4.3,3.0,4.0,4.2,4.6,4.8">>,
      <<"2024-04-01,N/A,,,,,,,,4.0,,4.1">>,
      <<"2024-05-02,N/A,N/A,N/A,N/A,N/A,N/A,N/A,N/A,N/A,N/A,N/A">>,
      <<"2024-06-03,5.3,5.2,4.7,4.4,4.3,4.5">> }

\* XAnalyzer::initialize(csv_file, date): curve.loadFromCSV(csv_file, date) on
\* the analyzer's curve
initialize(date) ==
    IF ~frame.exists
    THEN [points |-> yield_points, date |-> curve_date, val |-> FALSE, thrown |-> "none"]
    ELSE loadFromCSV(frame.file, date, yield_points, curve_date)

\* the effect of a case that starts with initialize(date) and then leaves the
\* stream as cin: an exception of std::stod ends the process
Initialized(date, r, cin) ==
    /\ yield_points' = r.points
    /\ curve_date' = r.date
    /\ ret' = [op |-> "initialize", args |-> <<date>>, val |-> r.val, thrown |-> r.thrown]
    /\ pc' = IF r.thrown = "none" THEN "pause" ELSE "aborted"
    /\ frame' = [frame EXCEPT !.cin = cin]
    /\ UNCHANGED variant

\* displayMenu(); std::cin >> choice;
MenuRead ==
    /\ pc = "menu"
    /\ frame' = [frame EXCEPT !.cin = ReadInt(frame.cin, frame.choice).cin,
                              !.choice = ReadInt(frame.cin, frame.choice).val]
    /\ pc' = "switch"
    /\ UNCHANGED <<variant, yield_points, curve_date, ret>>

\* case 1 (and case 6 of main_live.cpp): initialize, runFullAnalysis
MenuFullAnalysis ==
    /\ pc = "switch"
    /\ frame.choice \in AnalysisChoices
    /\ Initialized("", initialize(""), frame.cin)

\* case 2: std::cin >> date; initialize(csv_filename, date), runFullAnalysis
MenuForDate ==
    /\ pc = "switch"
    /\ frame.choice = 2
    /\ Initialized(ReadWord(frame.cin).val, initialize(ReadWord(frame.cin).val),
                   ReadWord(frame.cin).cin)

\* cases 3 and 4: initialize and, if it returns true, two numbers are read
MenuCustom ==
    /\ pc = "switch"
    /\ frame.choice \in CustomChoices
    /\ Initialized("", initialize(""),
                   IF initialize("").val /\ initialize("").thrown = "none"
                   THEN ReadDouble(ReadDouble(frame.cin))
                   ELSE frame.cin)

\* case 5 (and case 7 of main_live.cpp): initialize, then a second curve is
\* loaded and exported or summarised
MenuReport ==
    /\ pc = "switch"
    /\ frame.choice \in ReportChoices
    /\ Initialized("", initialize(""), frame.cin)

\* the Exit case: running = false, and the pause is skipped
MenuExit ==
    /\ pc = "switch"
    /\ frame.choice = ExitChoice
    /\ pc' = "exited"
    /\ UNCHANGED <<variant, yield_points, curve_date, frame, ret>>

\* default: "Invalid choice"
MenuInvalid ==
    /\ pc = "switch"
    /\ frame.choice \notin AnalysisChoices \cup {2} \cup CustomChoices \cup ReportChoices
                           \cup {ExitChoice}
    /\ pc' = "pause"
    /\ UNCHANGED <<variant, yield_points, curve_date, frame, ret>>

\* if (choice != Exit) { std::cin.ignore(); std::cin.get(); } and back to while
MenuPause ==
    /\ pc = "pause"
    /\ frame' = [frame EXCEPT !.cin = TakeChar(TakeChar(frame.cin))]
    /\ pc' = "menu"
    /\ UNCHANGED <<variant, yield_points, curve_date, ret>>

\* main up to the loop: the analyzer's curve is empty, choice is not
\* initialised, nothing has been read
MenuInit ==
    /\ variant \in {"legacy", "live"}
    /\ yield_points = <<>>
    /\ curve_date = ""
    /\ pc = "menu"
    /\ \E in \in MenuInputs, c \in IndeterminateChoices, file \in MenuFiles, e \in BOOLEAN :
           frame = [cin |-> Cin(in, TRUE), choice |-> c, file |-> file, exists |-> e]
    /\ ret = NoRet

MenuNext ==
    \/ MenuRead
    \/ MenuFullAnalysis
    \/ MenuForDate
    \/ MenuCustom
    \/ MenuReport
    \/ MenuExit
    \/ MenuInvalid
    \/ MenuPause

\* the program runs on its own: a step that can be taken is taken
MenuSpec == MenuInit /\ [][MenuNext]_vars /\ WF_vars(MenuNext)

(***************************************************************************)
(* The claims.  A query's value is read from ret in the state the call     *)
(* leaves: no other call has run since, so yield_points is the store the   *)
(* query saw.                                                              *)
(***************************************************************************)
Returned(op) == pc = "idle" /\ ret.op = op

NumPoints == Len(yield_points)

Mat(i) == yield_points[i].maturity

Yld(i) == yield_points[i].yield

\* m lies strictly between the maturities of the adjacent points i and i + 1
StrictlyBetween(m, i) == RatLess(Mat(i), m) /\ RatLess(m, Mat(i + 1))

\* (m, v) lies on the straight line through the points i and i + 1:
\* (v - y1) * (m2 - m1) = (y2 - y1) * (m - m1)
OnChord(v, m, i) ==
    RatMul(RatSub(v, Yld(i)), RatSub(Mat(i + 1), Mat(i)))
        = RatMul(RatSub(Yld(i + 1), Yld(i)), RatSub(m, Mat(i)))

\* the stored points whose maturity is closer than 1e-6 to m
Near(m) == {j \in 1..NumPoints : RatLess(RatAbs(RatSub(Mat(j), m)), Rat(1, 1000000))}

\* C1 as stated: for a loaded store and adjacent points (m1,y1), (m2,y2) with
\* m1 < m < m2, yield_at(m) is y1 + (y2-y1)*(m-m1)/(m2-m1) for every such m,
\* those closer than 1e-6 to m1 or m2 included.
C1_InterpolationForEveryM ==
    Returned("getYield") =>
        \A i \in 1..(NumPoints - 1) :
            StrictlyBetween(ret.args[1], i) => OnChord(ret.val.v, ret.args[1], i)

\* C1 amended: for m1 < m < m2, yield_at(m) is the linear formula when no
\* stored maturity is closer than 1e-6 to m, and otherwise the stored yield of
\* such a point.
C1_InterpolationOutsideTolerance ==
    Returned("getYield") =>
        \A i \in 1..(NumPoints - 1) :
            StrictlyBetween(ret.args[1], i) =>
                IF Near(ret.args[1]) = {}
                THEN OnChord(ret.val.v, ret.args[1], i)
                ELSE \E j \in Near(ret.args[1]) : ret.val.v = Yld(j)

\* a query strictly inside a sloping bracket, 1e-6 or more from both ends
C1_Witness ==
    /\ Returned("getYield")
    /\ \E i \in 1..(NumPoints - 1) :
        /\ StrictlyBetween(ret.args[1], i)
        /\ Near(ret.args[1]) = {}
        /\ Yld(i) # Yld(i + 1)
        /\ ret.val.v # Yld(i)
        /\ ret.val.v # Yld(i + 1)

\* C2: in a store of two or more points, yield_at of a stored maturity is the
\* stored yield of that very point.
C2_StoredMaturityGivesStoredYield ==
    (Returned("getYield") /\ NumPoints >= 2) =>
        \A i \in 1..NumPoints : ret.args[1] = Mat(i) => ret.val.v = Yld(i)

\* the query hits an inner point whose two neighbours carry other yields
C2_Witness ==
    /\ Returned("getYield")
    /\ \E i \in 2..(NumPoints - 1) :
        /\ ret.args[1] = Mat(i)
        /\ ret.val.v = Yld(i)
        /\ Yld(i - 1) # Yld(i)
        /\ Yld(i + 1) # Yld(i)

\* the points of least and of greatest maturity, wherever they are stored
IsMinPoint(i) == \A j \in 1..NumPoints : RatLeq(Mat(i), Mat(j))

IsMaxPoint(i) == \A j \in 1..NumPoints : RatLeq(Mat(j), Mat(i))

\* C3: below the least stored maturity yield_at is the yield of the point of
\* least maturity, above the greatest it is the yield of the point of greatest
\* maturity.
C3_FlatExtrapolation ==
    (Returned("getYield") /\ NumPoints >= 1) =>
        \A i \in 1..NumPoints :
            /\ (IsMinPoint(i) /\ RatLess(ret.args[1], Mat(i))) => ret.val.v = Yld(i)
            /\ (IsMaxPoint(i) /\ RatLess(Mat(i), ret.args[1])) => ret.val.v = Yld(i)

\* a query below the least maturity of a store whose two ends differ in yield
C3_Witness ==
    /\ Returned("getYield")
    /\ NumPoints >= 2
    /\ \E i, j \in 1..NumPoints :
        /\ IsMinPoint(i)
        /\ IsMaxPoint(j)
        /\ Yld(i) # Yld(j)
        /\ RatLess(ret.args[1], Mat(i))
        /\ ret.val.v = Yld(i)

\* C4 as stated: on an empty store yield_at, spread, forward_rate and
\* duration(m) all return 0.0.
C4_EmptyStoreAllZero ==
    (pc = "idle" /\ yield_points = <<>>
        /\ ret.op \in {"getYield", "getSpread", "getForwardRate", "getDuration"}) =>
        ret.val = Fin(Zero)

\* C4 amended: on an empty store yield_at, spread and forward_rate return 0.0,
\* and duration(m) returns m itself, whatever the coupon.
C4_EmptyStoreSentinels ==
    (pc = "idle" /\ yield_points = <<>>) =>
        /\ ret.op \in {"getYield", "getSpread", "getForwardRate"} => ret.val = Fin(Zero)
        /\ ret.op = "getDuration" => ret.val = Fin(ret.args[1])

\* duration of a non-zero maturity with a non-zero coupon on an empty store
C4_Witness ==
    /\ Returned("getDuration")
    /\ yield_points = <<>>
    /\ ret.args[1] # Zero
    /\ ret.args[2] # Zero
    /\ ret.val = Fin(ret.args[1])

\* C5: forward_rate(t1, t2) is 0.0 whenever t2 <= t1.
C5_NonIncreasingHorizonGivesZero ==
    (Returned("getForwardRate") /\ RatLeq(ret.args[2], ret.args[1])) =>
        ret.val = Fin(Zero)

\* t2 < t1 on a store whose yields at t1 and t2 differ
C5_Witness ==
    /\ Returned("getForwardRate")
    /\ RatLess(ret.args[2], ret.args[1])
    /\ getYield(ret.args[1]) # getYield(ret.args[2])
    /\ ret.val = Fin(Zero)

\* 1 + yield_at(m)/100, the base of the powers of forward_rate
GrowthBase(m) == RatAdd(One, RatDiv(getYield(m), Hundred))

\* one of the two inner powers has a negative base and a non-integer exponent
PowDomainError(t1, t2) ==
    \/ RatLess(GrowthBase(t1), Zero) /\ ~RatIsInt(t1)
    \/ RatLess(GrowthBase(t2), Zero) /\ ~RatIsInt(t2)

\* C6: when the exponentiation of forward_rate(t1, t2), t2 > t1, meets a
\* domain error, the error is caught and forward_rate returns 0.0.
C6_DomainErrorGivesZero ==
    (Returned("getForwardRate") /\ RatLess(ret.args[1], ret.args[2])
        /\ PowDomainError(ret.args[1], ret.args[2])) =>
        ret.val = Fin(Zero)

\* C7 as stated (its "in particular"): for t2 > t1, when yield_at(t1) and
\* yield_at(t2) are the same y, forward_rate(t1, t2) is y.
C7_EqualYieldsGiveThatYield ==
    (Returned("getForwardRate") /\ RatLess(ret.args[1], ret.args[2])
        /\ getYield(ret.args[1]) = getYield(ret.args[2])) =>
        ret.val = Fin(getYield(ret.args[1]))

\* b2^(t2/dt) * b1^(-t1/dt) for positive b1, b2, as a product of powers
ForwardMonomial(b1, t1, b2, t2) ==
    LET e2 == RatDiv(t2, RatSub(t2, t1))
        e1 == RatNeg(RatDiv(t1, RatSub(t2, t1)))
    IN  IF b1 = b2
        THEN IF b1 = One THEN {} ELSE {<<b1, One>>}
        ELSE (IF b2 = One THEN {} ELSE {<<b2, e2>>})
             \cup (IF b1 = One \/ e1 = Zero THEN {} ELSE {<<b1, e1>>})

\* C7 amended: for t2 > t1 and yields above -100% at t1 and t2,
\* forward_rate(t1, t2) is 100 * (((1+y2/100)^t2 / (1+y1/100)^t1)^(1/(t2-t1)) - 1),
\* and equal yields y > -100% give y.
C7_ForwardRateAboveMinusHundred ==
    (Returned("getForwardRate") /\ RatLess(ret.args[1], ret.args[2])
        /\ RatLess(Zero, GrowthBase(ret.args[1]))
        /\ RatLess(Zero, GrowthBase(ret.args[2]))) =>
        /\ ret.val = GrowthPercent(PFin(1, ForwardMonomial(GrowthBase(ret.args[1]), ret.args[1],
                                                           GrowthBase(ret.args[2]), ret.args[2])))
        /\ getYield(ret.args[1]) = getYield(ret.args[2]) =>
               ret.val = Fin(getYield(ret.args[1]))

\* equal non-zero yields above -100% over a horizon other than one year
C7_Witness ==
    /\ Returned("getForwardRate")
    /\ RatLess(ret.args[1], ret.args[2])
    /\ RatSub(ret.args[2], ret.args[1]) # One
    /\ ret.args[1] # Zero
    /\ getYield(ret.args[1]) = getYield(ret.args[2])
    /\ RatLess(Zero, getYield(ret.args[1]))
    /\ ret.val = Fin(getYield(ret.args[1]))

\* C8: duration(m, coupon) is m when coupon is 0, whatever the store, and
\* m / (1 + yield_at(m)/100) for every other coupon, whatever its magnitude.
C8_DurationLaw ==
    Returned("getDuration") =>
        IF ret.args[2] = Zero THEN ret.val = Fin(ret.args[1])
        ELSE IF getYield(ret.args[1]) # Rat(-100, 1)
        THEN /\ ret.val.k = "fin"
             /\ RatMul(ret.val.v, RatAdd(Hundred, getYield(ret.args[1])))
                    = RatMul(Hundred, ret.args[1])
        ELSE ret.val.k # "fin"

\* a non-zero coupon, a non-zero maturity and a non-zero yield at it
C8_Witness ==
    /\ Returned("getDuration")
    /\ ret.args[2] # Zero
    /\ ret.args[1] # Zero
    /\ NumPoints >= 2
    /\ getYield(ret.args[1]) # Zero
    /\ ret.val.k = "fin"
    /\ ret.val.v # ret.args[1]

\* C9: spread(m1, m2) is yield_at(m2) - yield_at(m1), in either order of m1
\* and m2.
C9_SpreadIsDifference ==
    Returned("getSpread") =>
        RatAdd(ret.val.v, getYield(ret.args[1])) = getYield(ret.args[2])

\* m1 above m2, with different yields
C9_Witness ==
    /\ Returned("getSpread")
    /\ RatLess(ret.args[2], ret.args[1])
    /\ getYield(ret.args[1]) # getYield(ret.args[2])
    /\ ret.val.v # Zero

\* the rates of classify_shape and its four rules
ShortRate == getYield(Rat(1, 4))

MediumRate == getYield(Rat(5, 1))

LongRate == getYield(Rat(30, 1))

HumpedRule ==
    /\ RatLess(Rat(1, 5), RatSub(ShortRate, MediumRate))
    /\ RatLess(Rat(1, 5), RatSub(LongRate, MediumRate))

InvertedRule == RatLess(Rat(1, 10), RatSub(ShortRate, LongRate))

SteepRule == RatLess(Rat(1, 2), RatSub(LongRate, ShortRate))

NormalRule == RatLess(Rat(1, 10), RatSub(LongRate, ShortRate))

\* C10: classify_shape is "Insufficient Data" exactly when the store has fewer
\* than 3 points, and otherwise the label of the first rule that matches in
\* the order Humped, Inverted, Steep Normal, Normal, with Flat when none does.
C10_ShapeIsFirstMatchingRule ==
    Returned("analyzeCurveShape") =>
        /\ ret.val = "Insufficient Data" <=> NumPoints < 3
        /\ NumPoints >= 3 =>
            /\ ret.val = "Humped" <=> HumpedRule
            /\ ret.val = "Inverted" <=> (~HumpedRule /\ InvertedRule)
            /\ ret.val = "Steep Normal" <=> (~HumpedRule /\ ~InvertedRule /\ SteepRule)
            /\ ret.val = "Normal" <=>
                   (~HumpedRule /\ ~InvertedRule /\ ~SteepRule /\ NormalRule)
            /\ ret.val = "Flat" <=>
                   (~HumpedRule /\ ~InvertedRule /\ ~SteepRule /\ ~NormalRule)

\* short/medium/long = 5.0/3.0/4.8: the Humped and the Inverted rule both match
C10_Witness ==
    /\ Returned("analyzeCurveShape")
    /\ NumPoints >= 3
    /\ ShortRate = Rat(5, 1)
    /\ MediumRate = Rat(3, 1)
    /\ LongRate = Rat(24, 5)
    /\ InvertedRule
    /\ ret.val = "Humped"

\* C11: in a load with an empty date_filter the resident curve is that of the
\* last row that yields at least one valid point: once such a row is resident,
\* no later row of the same load leaves the store without points.
C11_ZeroPointRowDoesNotDisplace ==
    [][(/\ pc = "loading"
        /\ frame.date_filter = ""
        /\ frame.found_date
        /\ yield_points # <<>>
        /\ pc' = "loading") => yield_points' # <<>>]_vars

\* C12: a load with a non-empty date_filter that returns true leaves the curve
\* of a row whose date contains the filter and that gave at least one point.
C12_FilteredLoadKeepsFirstSuccessfulMatch ==
    (Returned("loadFromCSV") /\ ret.args[1] # "" /\ ret.val = TRUE) =>
        /\ Contains(curve_date, ret.args[1])
        /\ yield_points # <<>>

\* the tenor labels in the order in which the class takes the value fields
TenorsTaken ==
    IF variant = "live" THEN MaturityOrderLive
    ELSE [k \in 1..Len(MaturityMapLegacy) |-> MaturityMapLegacy[k][1]]

\* the value fields of a row that have a tenor: fields 1 .. ValueFields(tokens)
ValueFields(tokens) ==
    IF Len(tokens) - 1 < Len(TenorsTaken) THEN Len(tokens) - 1 ELSE Len(TenorsTaken)

\* the row of the input that carries the date d
RowsDated(d) == {l \in Lines : TokensOf[l][1] = d}

\* every value field of the row is a number of double range or no number at all
OnlyNumbersAndBadFields(tokens) ==
    \A k \in 1..ValueFields(tokens) : stod(tokens[k + 1]).st \in {"ok", "invalid_argument"}

\* C13: when the row that set curve_date has empty or non-numeric fields, every
\* numeric field of it is the yield of a resident point.
C13_BadFieldDropsOnlyItsTenor ==
    \A l \in RowsDated(curve_date) :
        OnlyNumbersAndBadFields(TokensOf[l]) =>
            \A k \in 1..ValueFields(TokensOf[l]) :
                stod(TokensOf[l][k + 1]).st = "ok" =>
                    \E i \in 1..NumPoints : Yld(i) = stod(TokensOf[l][k + 1]).v

\* C14: whenever load returns true the store holds at least one point.
C14_TrueMeansPointsLoaded ==
    (Returned("loadFromCSV") /\ ret.val = TRUE) => yield_points # <<>>

\* no row a file may hold has a date that contains the filter f
NoRowMatches(f) == \A l \in Lines : ~Contains(TokensOf[l][1], f)

C16_SortedStrictlyByMaturity ==
    pc = "idle" => \A i \in 1..(NumPoints - 1) : RatLess(Mat(i), Mat(i + 1))

\* a returned load of the legacy class, whose row was not filled in maturity order
C16_Witness ==
    /\ Returned("loadFromCSV")
    /\ ret.val = TRUE
    /\ NumPoints >= 2
    /\ \E l \in RowsDated(curve_date) : Fill(TokensOf[l]).points # yield_points
    /\ \A i \in 1..(NumPoints - 1) : RatLess(Mat(i), Mat(i + 1))

\* the year-fraction the class gives the tenor of the k-th value field
YearsTaken(k) ==
    IF variant = "live" THEN MaturityMapLive(MaturityOrderLive[k])
    ELSE MaturityMapLegacy[k][2]

\* the points the value fields of a row parse to
RowPointSet(tokens) ==
    {YieldPoint(YearsTaken(k), stod(tokens[k + 1]).v, TenorsTaken[k]) :
        k \in {j \in 1..ValueFields(tokens) : stod(tokens[j + 1]).st = "ok"}}

ResidentPointSet == {yield_points[i] : i \in 1..NumPoints}

\* C17: after every load call returns, curve_date names the row all resident
\* points were parsed from (with no date there are no points).
C17_DateNamesRowOfPoints ==
    pc = "idle" =>
        IF curve_date = "" THEN yield_points = <<>>
        ELSE \E l \in RowsDated(curve_date) :
                /\ ResidentPointSet = RowPointSet(TokensOf[l])
                /\ NumPoints = Cardinality(RowPointSet(TokensOf[l]))

\* a load without filter has returned and left the points of the dated row
C17_Witness ==
    /\ Returned("loadFromCSV")
    /\ ret.args[1] = ""
    /\ ret.val = TRUE
    /\ NumPoints >= 2
    /\ \E l \in RowsDated(curve_date) : ResidentPointSet = RowPointSet(TokensOf[l])

\* the order of the tenors as C18 states it
TenorsClaimed ==
    IF variant = "live"
    THEN <<"1MO", "3MO", "6MO", "1Y", "2Y", "3Y", "5Y", "7Y", "10Y", "20Y", "30Y">>
    ELSE <<"3MO", "6MO", "2Y", "5Y", "10Y", "30Y">>

\* C18: the k-th value field of the loaded row is the yield of the resident
\* point that carries the label and the year-fraction of the k-th tenor
\* (legacy: 3MO, 6MO, 2Y, 5Y, 10Y, 30Y; live: 1MO, 3MO, ..., 30Y).
C18_FieldKGoesToTenorK ==
    pc = "idle" =>
        \A l \in RowsDated(curve_date) :
            \A k \in 1..Len(TenorsClaimed) :
                (k < Len(TokensOf[l]) /\ stod(TokensOf[l][k + 1]).st = "ok") =>
                    \E i \in 1..NumPoints :
                        /\ yield_points[i].maturity_label = TenorsClaimed[k]
                        /\ Mat(i) = MaturityMapLive(TenorsClaimed[k])
                        /\ Yld(i) = stod(TokensOf[l][k + 1]).v

\* C19: no operation is fatal: no call ends in an uncaught exception.
C19_NoOperationAborts == pc # "aborted"

QueryOps == {"getYield", "getForwardRate", "getDuration", "getSpread", "analyzeCurveShape"}

\* the query ret records, asked once more of the store as it is now
AskedAgain ==
    CASE ret.op = "getYield" -> Fin(getYield(ret.args[1]))
      [] ret.op = "getForwardRate" -> getForwardRate(ret.args[1], ret.args[2])
      [] ret.op = "getDuration" -> getDuration(ret.args[1], ret.args[2])
      [] ret.op = "getSpread" -> Fin(getSpread(ret.args[1], ret.args[2]))
      [] ret.op = "analyzeCurveShape" -> analyzeCurveShape
      [] OTHER -> ret

\* C20: a query leaves the points and curve_date as they were, and the same
\* query asked again of the store it leaves returns the value it returned.
C20_QueriesArePure ==
    /\ [](ret.op \in QueryOps => ret.val = AskedAgain)
    /\ [][ret'.op \in QueryOps =>
            (yield_points' = yield_points /\ curve_date' = curve_date)]_vars

\* a forward rate other than 0.0 was returned on a loaded store, and asking
\* again returns it again
C20_Witness ==
    /\ Returned("getForwardRate")
    /\ NumPoints >= 2
    /\ curve_date # ""
    /\ ret.val # Fin(Zero)
    /\ ret.val = AskedAgain

\* an export whose output file opened
Exported == Returned("exportToJSON") /\ ret.opened

\* spread(2, 10) of the store as it is now
Spread2s10s == getSpread(Rat(2, 1), Rat(10, 1))

\* C21: in the JSON export recession_warning is true exactly when
\* spread(2,10) < -0.2, and curve_steepness is "steep" when spread(2,10) > 1.0,
\* "inverted" when it is < -0.1 and "flat" otherwise, the values exactly 1.0,
\* -0.1 and -0.2 included.
C21_ExportIndicators ==
    Exported =>
        /\ ret.val.economic_indicators.recession_warning <=> RatLess(Spread2s10s, Rat(-1, 5))
        /\ RatLess(One, Spread2s10s) =>
               ret.val.economic_indicators.curve_steepness = "steep"
        /\ RatLess(Spread2s10s, Rat(-1, 10)) =>
               ret.val.economic_indicators.curve_steepness = "inverted"
        /\ (RatLeq(Spread2s10s, One) /\ RatLeq(Rat(-1, 10), Spread2s10s)) =>
               ret.val.economic_indicators.curve_steepness = "flat"
        /\ Spread2s10s = Rat(-1, 5) =>
               /\ ~ret.val.economic_indicators.recession_warning
               /\ ret.val.economic_indicators.curve_steepness = "inverted"

\* an export of a curve whose spread(2,10) is exactly 1.0
C21_Witness ==
    /\ Exported
    /\ Spread2s10s = One
    /\ ret.val.economic_indicators.curve_steepness = "flat"
    /\ ~ret.val.economic_indicators.recession_warning

\* the store of the scenario: 3MO 5.00, 2Y 4.50, 10Y 4.20, 30Y 4.60
ScenarioStore ==
    << YieldPoint(Rat(1, 4), Rat(500, 100), "3MO"), YieldPoint(Rat(2, 1), Rat(450, 100), "2Y"),
       YieldPoint(Rat(10, 1), Rat(420, 100), "10Y"), YieldPoint(Rat(30, 1), Rat(460, 100), "30Y") >>

\* C22 as stated: for the store {(0.25, 5.00, "3MO"), (2, 4.50, "2Y"),
\* (10, 4.20, "10Y"), (30, 4.60, "30Y")}, spread(2,10) is -0.30 and the JSON
\* export's recession_warning is false.
C22_ScenarioWarningFalse ==
    (Exported /\ yield_points = ScenarioStore) =>
        /\ Spread2s10s = Rat(-30, 100)
        /\ ret.val.economic_indicators.recession_warning = FALSE

\* C22 amended: for that store spread(2,10) is -0.30, both as the query
\* returns it and as the export reports it in basis points, and the JSON
\* export's recession_warning is true, -0.30 being below -0.2.
C22_ScenarioWarningTrue ==
    (pc = "idle" /\ yield_points = ScenarioStore) =>
        /\ (ret.op = "getSpread" /\ ret.args = <<Rat(2, 1), Rat(10, 1)>>) =>
               ret.val = Fin(Rat(-30, 100))
        /\ Exported =>
               /\ Spread2s10s = Rat(-30, 100)
               /\ ret.val.key_spreads.s2s10s_bps = Rat(-30, 1)
               /\ ret.val.economic_indicators.recession_warning = TRUE

\* the scenario's store has been exported
C22_Witness ==
    /\ Exported
    /\ yield_points = ScenarioStore
    /\ ret.val.economic_indicators.recession_warning = TRUE
    /\ ret.val.date = "2024-03-04"

\* a whole call of loadFromCSV that opened its file and returned true
LoadedTrue == Returned("loadFromCSV") /\ ret.opened /\ ret.val = TRUE

\* the rows of a file that decide the result: with no filter the last
\* selected row, with a filter the first
DecidingRows(file, date_filter) ==
    {i \in 1..Len(file) :
        /\ Selected(TokensOf[file[i]], date_filter)
        /\ \A j \in 1..Len(file) :
               Selected(TokensOf[file[j]], date_filter) =>
                   IF date_filter = "" THEN j <= i ELSE i <= j}

\* C23: whenever load returns true, curve_date and the points are those the
\* same file and filter give on an empty store, they are the date and the
\* sorted points of the deciding row, and loading the same file with the same
\* filter once more leaves them as they are.
C23_LoadResultIgnoresPriorStore ==
    LoadedTrue =>
        /\ loadFromCSV(ret.file, ret.args[1], <<>>, "")
               = [points |-> yield_points, date |-> curve_date, val |-> TRUE, thrown |-> "none"]
        /\ \E i \in DecidingRows(ret.file, ret.args[1]) :
               /\ curve_date = TokensOf[ret.file[i]][1]
               /\ yield_points = SortByMaturity(Fill(TokensOf[ret.file[i]]).points)
        /\ loadFromCSV(ret.file, ret.args[1], yield_points, curve_date)
               = [points |-> yield_points, date |-> curve_date, val |-> TRUE, thrown |-> "none"]

\* a load over two or more rows returned true on a store that held another
\* curve before
C23_Witness ==
    /\ LoadedTrue
    /\ Len(ret.file) >= 2
    /\ ret.before.points # <<>>
    /\ ret.before.points # yield_points
    /\ ret.before.date # curve_date
    /\ yield_points # <<>>

\* v lies between the smallest and the largest stored yield
YieldInRange(v) ==
    /\ \E i \in 1..NumPoints : RatLeq(Yld(i), v)
    /\ \E j \in 1..NumPoints : RatLeq(v, Yld(j))

IsStoredYield(v) == \E i \in 1..NumPoints : v = Yld(i)

\* v is the interpolation at m of two adjacent points that enclose m
IsInterpolated(v, m) ==
    \E i \in 1..(NumPoints - 1) :
        /\ RatLeq(Mat(i), m)
        /\ RatLeq(m, Mat(i + 1))
        /\ OnChord(v, m, i)

\* no test of getYield accepts m: the function runs to its last line
FallsThrough(m) ==
    /\ NumPoints >= 1
    /\ Near(m) = {}
    /\ RatLess(Mat(1), m)
    /\ RatLess(m, Mat(NumPoints))
    /\ \A i \in 1..(NumPoints - 1) : ~(RatLeq(Mat(i), m) /\ RatLeq(m, Mat(i + 1)))

\* C24 as stated: on a non-empty sorted store yield_at(m) lies, for every m,
\* between the smallest and the largest stored yield and is a stored yield or
\* the interpolation of two adjacent points; the last line of the bracket
\* search, return 0.0, is never reached.
C24_EveryArgumentStaysInRange ==
    (pc = "idle" /\ NumPoints >= 1) =>
        /\ ret.op = "getYield" =>
               /\ YieldInRange(ret.val.v)
               /\ IsStoredYield(ret.val.v) \/ IsInterpolated(ret.val.v, ret.args[1])
               /\ ~FallsThrough(ret.args[1])
        /\ ret.op = "getYieldNonFinite" =>
               /\ YieldInRange(ret.val.v)
               /\ IsStoredYield(ret.val.v)

\* C24 amended: the same for every m that is not NaN (for an infinite m the
\* value is the yield of the point at that end of the curve); for m = NaN the
\* search does reach its last line and yield_at is 0.0, whatever is stored.
C24_EveryNumberStaysInRange ==
    (pc = "idle" /\ NumPoints >= 1) =>
        /\ ret.op = "getYield" =>
               /\ YieldInRange(ret.val.v)
               /\ IsStoredYield(ret.val.v) \/ IsInterpolated(ret.val.v, ret.args[1])
               /\ ~FallsThrough(ret.args[1])
        /\ (ret.op = "getYieldNonFinite" /\ ret.args[1] = Inf(-1)) =>
               ret.val.v = Yld(1)
        /\ (ret.op = "getYieldNonFinite" /\ ret.args[1] = Inf(1)) =>
               ret.val.v = Yld(NumPoints)
        /\ (ret.op = "getYieldNonFinite" /\ ret.args[1] \in {Inf(-1), Inf(1)}) =>
               YieldInRange(ret.val.v)
        /\ (ret.op = "getYieldNonFinite" /\ ret.args[1] = NaN) =>
               ret.val.v = Zero

\* an interpolated value that is no stored yield, strictly inside the range of
\* the stored yields
C24_Witness ==
    /\ Returned("getYield")
    /\ NumPoints >= 3
    /\ ~IsStoredYield(ret.val.v)
    /\ IsInterpolated(ret.val.v, ret.args[1])
    /\ YieldInRange(ret.val.v)
    /\ ret.val.v # Zero

ShapeLabels ==
    {"Insufficient Data", "Humped", "Inverted", "Steep Normal", "Normal", "Flat"}

\* long - short
LongLessShort == RatSub(LongRate, ShortRate)

\* C25: classify_shape returns one of the six labels, and on a store of 3 or
\* more points "Flat" only if |long - short| <= 0.1, "Normal" only if
\* 0.1 < long - short <= 0.5, "Steep Normal" only if long - short > 0.5 and
\* "Inverted" only if short - long > 0.1.
C25_LabelImpliesBand ==
    Returned("analyzeCurveShape") =>
        /\ ret.val \in ShapeLabels
        /\ NumPoints >= 3 =>
            /\ ret.val = "Flat" => RatLeq(RatAbs(LongLessShort), Rat(1, 10))
            /\ ret.val = "Normal" =>
                   (RatLess(Rat(1, 10), LongLessShort) /\ RatLeq(LongLessShort, Rat(1, 2)))
            /\ ret.val = "Steep Normal" => RatLess(Rat(1, 2), LongLessShort)
            /\ ret.val = "Inverted" => RatLess(Rat(1, 10), RatNeg(LongLessShort))

\* "Normal" at the upper end of its band: long - short is exactly 0.5
C25_Witness ==
    /\ Returned("analyzeCurveShape")
    /\ NumPoints >= 3
    /\ LongLessShort = Rat(1, 2)
    /\ ret.val = "Normal"

\* C26: in the live console summary "Recession Probability: HIGH" is printed
\* exactly when the 2s10s line is annotated "RECESSION WARNING", and the
\* probability is ELEVATED exactly when the annotation is INVERTED.
C26_RecessionSignalsAgree ==
    Returned("printCurve") =>
        /\ ret.val.recession_probability = "HIGH" <=> ret.val.annotation = "RECESSION WARNING"
        /\ ret.val.recession_probability = "ELEVATED" <=> ret.val.annotation = "INVERTED"

\* C27: the menu loop eventually terminates for every finite input stream: on
\* the Exit choice, and also when the input ends or is no number.
C27_MenuLoopTerminates == <>(pc \in {"exited", "aborted"})

====
